---- MODULE Spec2Model ----
(***************************************************************************)
(* Red black tree of rbtree-ec.c (top-down insertion and deletion after    *)
(* Julienne Walker) with its stack-based traversal object.                 *)
(*                                                                         *)
(* Nodes are caller-owned records; the model keeps a pool of them,         *)
(* addressed by the identifiers 1..MaxNodes.  NULL is 0 and HEAD is the    *)
(* stack-local false root that insertion and erasure put above the root.   *)
(***************************************************************************)
EXTENDS Integers, Sequences, FiniteSets, TLC

\* ---------------------------------------------------------------- bounds
MaxNodes == 4        \* caller records available for insertion
MaxKey == 4          \* keys are drawn from 1..MaxKey
KeyBits == 8         \* width of the key arithmetic in node_cmp
DeepNodes == 7       \* records and keys 1..DeepNodes of the larger trees

HEIGHT_LIMIT == 64

NULL == 0
HEAD == -1
Nodes == 1..MaxNodes
Keys == 1..MaxKey
DeepKeys == 1..DeepNodes
Dirs == {0, 1}

VARIABLES
  node,      \* the caller's records: [key, red, link], link indexed by 0/1
  root,      \* tree->root
  trav,      \* the traversal object: [it, path, top]; seeded: start has run
  walk,      \* keys handed out by an unbroken first/next or last/prev run
  present,   \* the keys inserted and not erased since
  op,        \* the last completed operation and what it returned
  fault      \* TRUE once an operation dereferenced an absent reference

vars == <<node, root, trav, walk, present, op, fault>>

\* ------------------------------------------------------------ arithmetic
RECURSIVE Pow2(_)
Pow2(n) == IF n = 0 THEN 1 ELSE 2 * Pow2(n - 1)

\* Two's complement wrap of x to KeyBits bits.
Wrap(x) == ((x + Pow2(KeyBits - 1)) % Pow2(KeyBits)) - Pow2(KeyBits - 1)

\* The least and the greatest key of KeyBits bits.
KeyMin == 0 - Pow2(KeyBits - 1)
KeyMax == Pow2(KeyBits - 1) - 1

\* Mutant of node_cmp: the operands are exchanged.
node_cmp_swapped(k1, k2) == Wrap(k1 - k2)

\* node_cmp(n1, n2) on the keys of the two nodes: n2->data.key - n1->data.key
node_cmp(k1, k2) == Wrap(k2 - k1)

Not(d) == 1 - d
Bool(b) == IF b THEN 1 ELSE 0

\* ------------------------------------------------------------- helpers
\* The element of a one-element set.  { F(x) : x \in {e} } names the value
\* of e once, as a local variable of the C code does.
Only(S) == CHOOSE x \in S : TRUE

ZeroNode == [key |-> 0, red |-> 0, link |-> [d \in Dirs |-> NULL]]

\* Memory as seen inside insert/erase: the pool plus the local false root,
\* initialised as { .red = 0 } (everything else zero).
WithHead(mem) ==
  [x \in DOMAIN mem \cup {HEAD} |-> IF x = HEAD THEN ZeroNode ELSE mem[x]]
WithoutHead(m) == [x \in DOMAIN m \ {HEAD} |-> m[x]]

is_red(m, x) == x # NULL /\ m[x].red = 1

\* Result of a rotation: the memory, the new subtree root, and whether an
\* absent reference was dereferenced.
Rot(m, r, f) == [mem |-> m, r |-> r, fault |-> f]

\* root->red = 1; save->red = 0
rotate_colors(m, rt, save) == [m EXCEPT ![rt].red = 1, ![save].red = 0]

\* root->link[!dir] = save->link[dir]; save->link[dir] = root
rotate_links(m, rt, save, dir) ==
  [m EXCEPT ![rt].link[Not(dir)] = m[save].link[dir], ![save].link[dir] = rt]

jsw_single(m, rt, dir) ==
  IF rt = NULL THEN Rot(m, NULL, TRUE)
  ELSE IF m[rt].link[Not(dir)] = NULL THEN Rot(m, NULL, TRUE)
  ELSE Only({ Only({ Rot(rotate_colors(m1, rt, save), save, FALSE) :
                     m1 \in {rotate_links(m, rt, save, dir)} }) :
              save \in {m[rt].link[Not(dir)]} })

jsw_double(m, rt, dir) ==
  IF rt = NULL THEN Rot(m, NULL, TRUE)
  ELSE Only({ IF inner.fault THEN Rot(m, NULL, TRUE)
              ELSE Only({ jsw_single(m1, rt, dir) :
                          m1 \in {[inner.mem EXCEPT ![rt].link[Not(dir)] = inner.r]} }) :
              inner \in {jsw_single(m, m[rt].link[Not(dir)], Not(dir))} })

new_node(m, rn) ==
  [m EXCEPT ![rn].red = 1, ![rn].link = [d \in Dirs |-> NULL]]

\* Result of an operation on the tree.
Res(m, rt, ret, f) == [mem |-> m, root |-> rt, ret |-> ret, fault |-> f]

\* ---------------------------------------------------------------- search
\* Mutant of find_dir: the search turns the other way.
find_dir_flipped(cmp) == Bool(cmp > 0)

\* it = it->link[cmp < 0]
find_dir(cmp) == Bool(cmp < 0)

RECURSIVE find_loop(_, _, _)
find_loop(m, it, k) ==
  IF it = NULL THEN NULL
  ELSE IF node_cmp(m[it].key, k) = 0 THEN it
  ELSE find_loop(m, m[it].link[find_dir(node_cmp(m[it].key, k))], k)

jsw_rbfind(m, rt, k) == find_loop(m, rt, k)

\* ---------------------------------------------------------------- insert
\* Simple red violation: color flip
insert_color_flip(m, q) ==
  [m EXCEPT ![q].red = 1,
            ![m[q].link[0]].red = 0,
            ![m[q].link[1]].red = 0]

\* Mutant of blacken_root: the root keeps its color.
blacken_root_skip(m, rt) == m

\* tree->root->red = 0
blacken_root(m, rt) == [m EXCEPT ![rt].red = 0]

\* The value jsw_rbinsert returns once the loop has ended.
insert_ret(inserted) == 1

\* Loop state of jsw_rbinsert: the helpers t, g, p, q, dir and last;
\* linked records whether new_node was attached, done ends the loop.
\* Insert a new node at the first null link, or flip colors.
ins_first(s, n) ==
  IF s.q = NULL
  THEN IF s.p = NULL
       THEN [s EXCEPT !.fault = TRUE]
       ELSE [s EXCEPT !.mem = [new_node(s.mem, n) EXCEPT ![s.p].link[s.dir] = n],
                      !.q = n, !.linked = TRUE]
  ELSE IF is_red(s.mem, s.mem[s.q].link[0]) /\ is_red(s.mem, s.mem[s.q].link[1])
       THEN [s EXCEPT !.mem = insert_color_flip(s.mem, s.q)]
       ELSE s

\* int dir2 = t->link[1] == g
ins_dir2(m, t, g) == Bool(m[t].link[1] = g)

\* Mutant of ins_rotate: a red child under a red parent is left alone.
ins_rotate_none(s) == s

\* Hard red violation: rotations necessary
ins_rotate(s) ==
  IF s.fault \/ ~(is_red(s.mem, s.q) /\ is_red(s.mem, s.p)) THEN s
  ELSE Only({ IF rot.fault THEN [s EXCEPT !.fault = TRUE]
              ELSE [s EXCEPT !.mem = [rot.mem EXCEPT
                                        ![s.t].link[ins_dir2(s.mem, s.t, s.g)] = rot.r]] :
              rot \in {IF s.q = s.mem[s.p].link[s.last]
                       THEN jsw_single(s.mem, s.g, Not(s.last))
                       ELSE jsw_double(s.mem, s.g, Not(s.last))} })

\* dir = node_cmp ( q, node ) < 0
ins_dir(cmp) == Bool(cmp < 0)

\* Mutant of ins_descend: an equal key stops the loop only once the new node
\* is linked, so duplicates are chained under link[0].
ins_descend_dups(s, k) ==
  IF s.fault THEN s
  ELSE IF node_cmp(s.mem[s.q].key, k) = 0 /\ s.linked THEN [s EXCEPT !.done = TRUE]
  ELSE Only({ [s EXCEPT !.last = s.dir, !.dir = d,
                        !.t = IF s.g # NULL THEN s.g ELSE s.t,
                        !.g = s.p, !.p = s.q,
                        !.q = s.mem[s.q].link[d]] :
              d \in {Bool(node_cmp(s.mem[s.q].key, k) < 0)} })

\* Stop on an equal key, otherwise move the helpers down.
ins_descend(s, k) ==
  IF s.fault THEN s
  ELSE IF node_cmp(s.mem[s.q].key, k) = 0 THEN [s EXCEPT !.done = TRUE]
  ELSE Only({ [s EXCEPT !.last = s.dir, !.dir = d,
                        !.t = IF s.g # NULL THEN s.g ELSE s.t,
                        !.g = s.p, !.p = s.q,
                        !.q = s.mem[s.q].link[d]] :
              d \in {ins_dir(node_cmp(s.mem[s.q].key, k))} })

\* One pass of the for loop.
ins_iter(s, n) ==
  Only({ ins_descend(b, s.mem[n].key) :
         b \in {ins_rotate(a) : a \in {ins_first(s, n)}} })

RECURSIVE ins_loop(_, _)
ins_loop(s, n) ==
  IF s.fault \/ s.done THEN s
  ELSE Only({ ins_loop(s1, n) : s1 \in {ins_iter(s, n)} })

\* After the loop: tree->root = head.link[1]; tree->root->red = 0; return 1
ins_finish(s, mem, rt) ==
  IF s.fault \/ s.mem[HEAD].link[1] = NULL THEN Res(mem, rt, 0, TRUE)
  ELSE Res(WithoutHead(blacken_root(s.mem, s.mem[HEAD].link[1])),
           s.mem[HEAD].link[1], insert_ret(s.linked), FALSE)

\* The helpers before the loop: t = &head, g = p = NULL,
\* q = t->link[1] = tree->root, dir = 0, last = 0.
ins_start(mem, rt) ==
  [mem |-> [WithHead(mem) EXCEPT ![HEAD].link[1] = rt],
   t |-> HEAD, g |-> NULL, p |-> NULL, q |-> rt,
   dir |-> 0, last |-> 0, linked |-> FALSE, fault |-> FALSE, done |-> FALSE]

jsw_rbinsert(mem, rt, n) ==
  IF rt = NULL
  THEN Res(blacken_root(new_node(mem, n), n), n, insert_ret(TRUE), FALSE)
  ELSE Only({ ins_finish(s, mem, rt) :
              s \in { ins_loop(s0, n) : s0 \in {ins_start(mem, rt)} } })

\* ----------------------------------------------------------------- erase
\* Mutant of erase_color_flip: the sibling is not colored red.
erase_color_flip_half(m, p, sib, q) ==
  [m EXCEPT ![p].red = 0, ![q].red = 1]

\* Mutant of erase_color_flip: the current node is not colored red.
erase_color_flip_sib(m, p, sib, q) ==
  [m EXCEPT ![p].red = 0, ![sib].red = 1]

\* Color flip of the push-down: p black, sibling and q red
erase_color_flip(m, p, sib, q) ==
  [m EXCEPT ![p].red = 0, ![sib].red = 1, ![q].red = 1]

\* Ensure correct coloring after the sibling rotation: x is g->link[dir2]
erase_recolor(m, q, x) ==
  [m EXCEPT ![q].red = 1, ![x].red = 1,
            ![m[x].link[0]].red = 0, ![m[x].link[1]].red = 0]

\* int dir2 = g->link[1] == p
erase_dir2(m, g, p) == Bool(m[g].link[1] = p)

\* The rotation chosen by the color of the sibling's children.
erase_rotation(m, p, sib, last) ==
  IF is_red(m, m[sib].link[last]) THEN jsw_double(m, p, last)
  ELSE jsw_single(m, p, last)

\* The sibling has a red child: rotate p and recolor.
erase_sibling_rotate(s, last, sib) ==
  IF s.g = NULL THEN [s EXCEPT !.fault = TRUE]
  ELSE Only({ IF rot.fault THEN [s EXCEPT !.fault = TRUE]
              ELSE Only({ IF m1[rot.r].link[0] = NULL \/ m1[rot.r].link[1] = NULL
                          THEN [s EXCEPT !.fault = TRUE]
                          ELSE [s EXCEPT !.mem = erase_recolor(m1, s.q, rot.r)] :
                          m1 \in {[rot.mem EXCEPT
                                     ![s.g].link[erase_dir2(s.mem, s.g, s.p)] = rot.r]} }) :
              rot \in {erase_rotation(s.mem, s.p, sib, last)} })

\* The sibling-side child of q is red: rotate q down.
erase_rotate_q(s, last) ==
  Only({ IF rot.fault THEN [s EXCEPT !.fault = TRUE]
         ELSE [s EXCEPT !.mem = [rot.mem EXCEPT ![s.p].link[last] = rot.r],
                        !.p = rot.r] :
         rot \in {jsw_single(s.mem, s.q, s.dir)} })

\* Push the red node down with rotations and color flips
erase_push_down(s, last) ==
  IF is_red(s.mem, s.q) \/ is_red(s.mem, s.mem[s.q].link[s.dir]) THEN s
  ELSE IF is_red(s.mem, s.mem[s.q].link[Not(s.dir)]) THEN erase_rotate_q(s, last)
  ELSE Only({ IF sib = NULL THEN s
              ELSE IF ~is_red(s.mem, s.mem[sib].link[Not(last)])
                      /\ ~is_red(s.mem, s.mem[sib].link[last])
                   THEN [s EXCEPT !.mem = erase_color_flip(s.mem, s.p, sib, s.q)]
                   ELSE erase_sibling_rotate(s, last, sib) :
              sib \in {s.mem[s.p].link[Not(last)]} })

\* dir = node_cmp ( q, node ) < 0
erase_dir(cmp) == Bool(cmp < 0)

\* Mutant of erase_move: the grandparent is not moved down.
erase_move_keep_g(s, k) ==
  Only({ [s EXCEPT !.p = s.q, !.q = q,
                   !.dir = erase_dir(node_cmp(s.mem[q].key, k)),
                   !.f = IF node_cmp(s.mem[q].key, k) = 0 THEN q ELSE s.f] :
         q \in {s.mem[s.q].link[s.dir]} })

\* Move the helpers down and save a node with matching data.
erase_move(s, k) ==
  Only({ [s EXCEPT !.g = s.p, !.p = s.q, !.q = q,
                   !.dir = erase_dir(node_cmp(s.mem[q].key, k)),
                   !.f = IF node_cmp(s.mem[q].key, k) = 0 THEN q ELSE s.f] :
         q \in {s.mem[s.q].link[s.dir]} })

\* One pass of the while loop; last is dir on entry.
erase_iter(s, k) ==
  Only({ erase_push_down(s1, s.dir) : s1 \in {erase_move(s, k)} })

RECURSIVE erase_loop(_, _)
erase_loop(s, k) ==
  IF s.fault \/ s.mem[s.q].link[s.dir] = NULL THEN s
  ELSE Only({ erase_loop(s1, k) : s1 \in {erase_iter(s, k)} })

\* Mutant of swap_data: the payload is copied one way only.
swap_data_copy(m, f, q) == [m EXCEPT ![f].key = m[q].key]

\* Mutant of swap_data: the payloads are not exchanged.
swap_data_skip(m, f, q) == m

\* test_data tmp = f->data; f->data = q->data; q->data = tmp
swap_data(m, f, q) ==
  [m EXCEPT ![f].key = m[q].key, ![q].key = m[f].key]

\* p->link[p->link[1] == q] = q->link[q->link[0] == NULL]
splice(m, p, q) ==
  [m EXCEPT ![p].link[Bool(m[p].link[1] = q)] = m[q].link[Bool(m[q].link[0] = NULL)]]

\* Mutant of erase_remove: the terminal node is unlinked although no node
\* was found.
erase_remove_always(s) ==
  IF s.f # NULL
  THEN Only({ splice(m1, s.p, s.q) : m1 \in {swap_data(s.mem, s.f, s.q)} })
  ELSE splice(s.mem, s.p, s.q)

\* Replace and remove the saved node
erase_remove(s) ==
  IF s.f # NULL
  THEN Only({ splice(m1, s.p, s.q) : m1 \in {swap_data(s.mem, s.f, s.q)} })
  ELSE s.mem

\* Mutant of erase_ret: a miss is reported as a failure.
erase_ret_found(found) == Bool(found)

\* The value jsw_rberase returns.
erase_ret(found) == 1

\* Result of jsw_rberase: f and q are the found and the terminal node.
ERes(m, rt, ret, flt, f, q) ==
  [mem |-> m, root |-> rt, ret |-> ret, fault |-> flt, f |-> f, q |-> q]

\* After the loop: remove, tree->root = head.link[1], make the root black.
erase_finish(s, mem, rt) ==
  IF s.fault THEN ERes(mem, rt, 0, TRUE, NULL, NULL)
  ELSE Only({ ERes(WithoutHead(IF m1[HEAD].link[1] # NULL
                               THEN blacken_root(m1, m1[HEAD].link[1]) ELSE m1),
                   m1[HEAD].link[1], erase_ret(s.f # NULL), FALSE, s.f, s.q) :
              m1 \in {erase_remove(s)} })

\* The helpers before the loop: q = &head, g = p = NULL, f = NULL, dir = 1.
erase_start(mem, rt) ==
  [mem |-> [WithHead(mem) EXCEPT ![HEAD].link[1] = rt],
   q |-> HEAD, p |-> NULL, g |-> NULL, f |-> NULL, dir |-> 1, fault |-> FALSE]

jsw_rberase(mem, rt, k) ==
  IF rt = NULL THEN ERes(mem, rt, erase_ret(FALSE), FALSE, NULL, NULL)
  ELSE Only({ erase_finish(s, mem, rt) :
              s \in { erase_loop(s0, k) : s0 \in {erase_start(mem, rt)} } })

\* ---------------------------------------------------------------- cursor
\* Mutant of push: the node is stored twice.
push_twice(t) ==
  IF t.top + 1 >= HEIGHT_LIMIT THEN [t EXCEPT !.fault = TRUE]
  ELSE [t EXCEPT !.path = Append(Append(t.path, t.it), t.it), !.top = t.top + 2]

\* trav->path[trav->top++] = trav->it; writing past HEIGHT_LIMIT is a fault.
push(t) ==
  IF t.top >= HEIGHT_LIMIT THEN [t EXCEPT !.fault = TRUE]
  ELSE [t EXCEPT !.path = Append(t.path, t.it), !.top = t.top + 1]

\* Mutant of walk_down: the nodes passed on the way down are not pushed.
RECURSIVE walk_down_nopush(_, _, _)
walk_down_nopush(m, t, dir) ==
  IF t.fault \/ m[t.it].link[dir] = NULL THEN t
  ELSE Only({ walk_down_nopush(m, t1, dir) :
              t1 \in {[t EXCEPT !.it = m[t.it].link[dir]]} })

\* while ( trav->it->link[dir] != NULL ) { push; trav->it = trav->it->link[dir]; }
RECURSIVE walk_down(_, _, _)
walk_down(m, t, dir) ==
  IF t.fault \/ m[t.it].link[dir] = NULL THEN t
  ELSE Only({ walk_down(m, t1, dir) :
              t1 \in {[push(t) EXCEPT !.it = m[t.it].link[dir]]} })

start(m, rt, dir) ==
  IF rt # NULL
  THEN Only({ walk_down(m, t0, dir) :
              t0 \in {[alloc |-> TRUE, seeded |-> TRUE, it |-> rt, path |-> <<>>,
                       top |-> 0, fault |-> FALSE]} })
  ELSE [alloc |-> TRUE, seeded |-> TRUE, it |-> rt, path |-> <<>>,
        top |-> 0, fault |-> FALSE]

\* Mutant of pop: the entry below the top one is taken when there is one.
pop_deeper(t) ==
  IF t.top >= 2
  THEN [t EXCEPT !.it = t.path[t.top - 1],
                 !.path = SubSeq(t.path, 1, t.top - 2), !.top = t.top - 2]
  ELSE [t EXCEPT !.it = t.path[t.top], !.path = SubSeq(t.path, 1, t.top - 1),
                 !.top = t.top - 1]

\* last = trav->it; trav->it = trav->path[--trav->top]
pop(t) ==
  [t EXCEPT !.it = t.path[t.top], !.path = SubSeq(t.path, 1, t.top - 1),
            !.top = t.top - 1]

\* Mutant of walk_up: one pop, whichever side the walk came up from.
walk_up_once(m, t, dir) ==
  IF t.top = 0 THEN [t EXCEPT !.it = NULL] ELSE pop(t)

\* do { if top == 0 { it = NULL; break; } pop; } while ( last == it->link[dir] );
RECURSIVE walk_up(_, _, _)
walk_up(m, t, dir) ==
  IF t.top = 0 THEN [t EXCEPT !.it = NULL]
  ELSE IF t.it = m[t.path[t.top]].link[dir]
       THEN Only({ walk_up(m, t1, dir) : t1 \in {pop(t)} })
       ELSE pop(t)

move(m, t, dir) ==
  IF t.it = NULL THEN [t EXCEPT !.fault = TRUE]
  ELSE IF m[t.it].link[dir] # NULL
       THEN Only({ walk_down(m, t1, Not(dir)) :
                   t1 \in {[push(t) EXCEPT !.it = m[t.it].link[dir]]} })
       ELSE walk_up(m, t, dir)

jsw_rbtfirst(m, rt) == start(m, rt, 0)
jsw_rbtlast(m, rt) == start(m, rt, 1)
jsw_rbtnext(m, t) == move(m, t, 1)
jsw_rbtprev(m, t) == move(m, t, 0)

\* ----------------------------------------------------------- observation
\* Nodes reachable from x through child links (fuel bounds the depth).
RECURSIVE Reach(_, _, _)
Reach(m, x, fuel) ==
  IF x = NULL \/ fuel = 0 THEN {}
  ELSE {x} \cup Reach(m, m[x].link[0], fuel - 1) \cup Reach(m, m[x].link[1], fuel - 1)

\* The caller's records, and those linked into the tree.
Pool == DOMAIN node
PoolSize == Cardinality(Pool)
InTree == Reach(node, root, PoolSize)
KeySet == {node[x].key : x \in InTree}

\* ---------------------------------------------------------------- system
\* kind: "first-next" or "last-prev" while the object has been seeded that
\* way and stepped only that way; done: the run has returned NULL.
NoWalk == [kind |-> "none", keys |-> <<>>, done |-> FALSE]
\* No traversal object: before jsw_rbtnew, or after jsw_rbtdelete.
NoTrav ==
  [alloc |-> FALSE, seeded |-> FALSE, it |-> NULL, path |-> <<>>, top |-> 0,
   fault |-> FALSE]

\* name, key and nd: the call; ret: what it returned; f and q: the found and
\* the unlinked node of an erase; rec: the caller's record (insert) or the
\* unlinked record (erase) as the call left it.
Op(name, k, n, ret, f, q, rec) ==
  [name |-> name, key |-> k, nd |-> n, ret |-> ret, f |-> f, q |-> q, rec |-> rec]

Init ==
  /\ node = [x \in Nodes |-> ZeroNode]
  /\ root = NULL
  /\ trav = NoTrav
  /\ walk = NoWalk
  /\ present = {}
  /\ op = Op("init", 0, NULL, 0, NULL, NULL, ZeroNode)
  /\ fault = FALSE

\* A record outside the tree belongs to the caller.  What an operation left
\* in it is reported in op; the caller then clears the record, and fills it
\* in again (key, then new_node's color and links) before it reuses it.
Recycle(m, rt) ==
  Only({ [x \in DOMAIN m |-> IF x \in live THEN m[x] ELSE ZeroNode] :
         live \in {Reach(m, rt, Cardinality(DOMAIN m))} })

\* The record the caller hands to jsw_rbinsert: one that is not in the tree.
FreeNodes == Pool \ InTree

\* Free records are all alike, so the caller takes the first one.
PickNode == CHOOSE n \in FreeNodes : \A x \in FreeNodes : n <= x

\* The caller fills in the key of a free record and passes it to jsw_rbinsert.
RbInsert(n, k) ==
  /\ ~fault
  /\ n \in FreeNodes
  /\ \E r \in {jsw_rbinsert([node EXCEPT ![n].key = k], root, n)} :
       /\ node' = Recycle(r.mem, r.root)
       /\ root' = r.root
       /\ fault' = r.fault
       /\ op' = Op("insert", k, n, r.ret, NULL, NULL, r.mem[n])
  /\ present' = present \cup {k}
  /\ walk' = NoWalk
  /\ UNCHANGED trav

RbErase(k) ==
  /\ ~fault
  /\ \E r \in {jsw_rberase(node, root, k)} :
       /\ node' = Recycle(r.mem, r.root)
       /\ root' = r.root
       /\ fault' = r.fault
       /\ op' = Op("erase", k, NULL, r.ret, r.f, r.q,
                   IF r.q \in Pool THEN r.mem[r.q] ELSE ZeroNode)
  /\ present' = present \ {k}
  /\ walk' = NoWalk
  /\ UNCHANGED trav

RbFind(k) ==
  /\ ~fault
  /\ op' = Op("find", k, NULL, jsw_rbfind(node, root, k), NULL, NULL, ZeroNode)
  /\ UNCHANGED <<node, root, trav, walk, present, fault>>

\* jsw_rbtnew: the object exists; its fields have no value that is ever read
\* before jsw_rbtfirst or jsw_rbtlast writes them.
RbtNew ==
  /\ ~fault
  /\ ~trav.alloc
  /\ trav' = [NoTrav EXCEPT !.alloc = TRUE]
  /\ op' = Op("new", 0, NULL, 0, NULL, NULL, ZeroNode)
  /\ UNCHANGED <<node, root, walk, present, fault>>

\* jsw_rbtdelete
RbtDelete ==
  /\ ~fault
  /\ trav.alloc
  /\ trav' = NoTrav
  /\ walk' = NoWalk
  /\ op' = Op("delete", 0, NULL, 0, NULL, NULL, ZeroNode)
  /\ UNCHANGED <<node, root, present, fault>>

Seed(name, seeded, kind) ==
  /\ ~fault
  /\ trav.alloc
  /\ \E t \in {seeded} :
       /\ trav' = t
       /\ fault' = t.fault
       /\ op' = Op(name, 0, NULL, t.it, NULL, NULL, ZeroNode)
       /\ walk' = [kind |-> kind, done |-> t.it = NULL,
                   keys |-> IF t.it = NULL THEN <<>> ELSE <<node[t.it].key>>]
  /\ UNCHANGED <<node, root, present>>

Step(name, moved, kind) ==
  /\ ~fault
  /\ trav.seeded
  /\ trav.it # NULL
  /\ \E t \in {moved} :
       /\ trav' = t
       /\ fault' = t.fault
       /\ op' = Op(name, 0, NULL, t.it, NULL, NULL, ZeroNode)
       /\ walk' = IF walk.kind # kind THEN NoWalk
                  ELSE IF t.it = NULL THEN [walk EXCEPT !.done = TRUE]
                  ELSE [walk EXCEPT !.keys = Append(walk.keys, node[t.it].key)]
  /\ UNCHANGED <<node, root, present>>

RbtFirst == Seed("first", jsw_rbtfirst(node, root), "first-next")
RbtLast == Seed("last", jsw_rbtlast(node, root), "last-prev")
RbtNext == Step("next", jsw_rbtnext(node, trav), "first-next")
RbtPrev == Step("prev", jsw_rbtprev(node, trav), "last-prev")

\* The tree alone: the mutators and the (pure) search.
Next ==
  \/ \E k \in Keys : FreeNodes # {} /\ RbInsert(PickNode, k)
  \/ \E k \in Keys : RbErase(k)
  \/ \E k \in Keys : RbFind(k)

Spec == Init /\ [][Next]_vars

\* The tree with a traversal object used as documented: the object is made,
\* seeded, stepped and released, and the tree is only changed while no
\* traversal object is outstanding.
NextTrav ==
  \/ \E k \in Keys : trav = NoTrav /\ FreeNodes # {} /\ RbInsert(PickNode, k)
  \/ \E k \in Keys : trav = NoTrav /\ RbErase(k)
  \/ RbtNew
  \/ RbtDelete
  \/ RbtFirst
  \/ RbtLast
  \/ RbtNext
  \/ RbtPrev

SpecTrav == Init /\ [][NextTrav]_vars

\* ---------------------------------------------------------- larger trees
\* The code uses the address of a record only to follow it and to compare
\* it with another address, so two memories that differ by a renaming of
\* the records behave alike.  Compact keeps one of them: the record of the
\* tree with the i-th smallest key gets the address i.
Compact(m, rt) ==
  Only({ Only({ [mem |-> [i \in DOMAIN m |->
                            IF i \in DOMAIN at
                            THEN [key |-> m[at[i]].key, red |-> m[at[i]].red,
                                  link |-> [d \in Dirs |->
                                              IF m[at[i]].link[d] = NULL THEN NULL
                                              ELSE rank[m[at[i]].link[d]]]]
                            ELSE ZeroNode],
                 root |-> IF rt = NULL THEN NULL ELSE rank[rt]] :
                at \in {[i \in 1..Cardinality(DOMAIN rank) |->
                           CHOOSE x \in DOMAIN rank : rank[x] = i]} }) :
         rank \in { [x \in live |-> Cardinality({y \in live : m[y].key <= m[x].key})] :
                    live \in {Reach(m, rt, Cardinality(DOMAIN m))} } })

InitDeep ==
  /\ node = [x \in DeepKeys |-> ZeroNode]
  /\ root = NULL
  /\ trav = NoTrav
  /\ walk = NoWalk
  /\ present = {}
  /\ op = Op("init", 0, NULL, 0, NULL, NULL, ZeroNode)
  /\ fault = FALSE

\* jsw_rbinsert and jsw_rberase as in RbInsert and RbErase, the records
\* renamed afterwards; op.f, op.q and op.rec of an erase are the addresses
\* and the record as they were when the call returned, before the renaming.
DeepInsert(n, k) ==
  /\ ~fault
  /\ n \in FreeNodes
  /\ \E r \in {jsw_rbinsert([node EXCEPT ![n].key = k], root, n)} :
       /\ fault' = r.fault
       /\ op' = Op("insert", k, NULL, r.ret, NULL, NULL, ZeroNode)
       /\ \E c \in {IF r.fault THEN [mem |-> r.mem, root |-> r.root]
                     ELSE Compact(r.mem, r.root)} :
            node' = c.mem /\ root' = c.root
  /\ present' = present \cup {k}
  /\ walk' = NoWalk
  /\ UNCHANGED trav

DeepErase(k) ==
  /\ ~fault
  /\ \E r \in {jsw_rberase(node, root, k)} :
       /\ fault' = r.fault
       /\ op' = Op("erase", k, NULL, r.ret, r.f, r.q,
                   IF r.q \in Pool THEN r.mem[r.q] ELSE ZeroNode)
       /\ \E c \in {IF r.fault THEN [mem |-> r.mem, root |-> r.root]
                     ELSE Compact(r.mem, r.root)} :
            node' = c.mem /\ root' = c.root
  /\ present' = present \ {k}
  /\ walk' = NoWalk
  /\ UNCHANGED trav

\* Trees of up to DeepNodes nodes with a traversal object used as
\* documented.
NextDeep ==
  \/ \E k \in DeepKeys : trav = NoTrav /\ FreeNodes # {} /\ DeepInsert(PickNode, k)
  \/ \E k \in DeepKeys : trav = NoTrav /\ DeepErase(k)
  \/ RbtNew
  \/ RbtDelete
  \/ RbtFirst
  \/ RbtLast
  \/ RbtNext
  \/ RbtPrev

SpecDeep == InitDeep /\ [][NextDeep]_vars

\* A tree that only grows: distinct keys are inserted, each in the lowest
\* unused record, so record i is the i-th one inserted.
GrowInsert(k) == k \notin present /\ FreeNodes # {} /\ RbInsert(PickNode, k)

NextGrow == \E k \in DeepKeys : GrowInsert(k)

SpecGrow == InitDeep /\ [][NextGrow]_vars

\* Keys at both ends of the key range and around zero.
WideKeys == {KeyMin, KeyMin + 1, -1, 0, 1, KeyMax}

\* A tree over the whole key range that is filled and searched.
NextWide ==
  \/ \E k \in WideKeys : FreeNodes # {} /\ RbInsert(PickNode, k)
  \/ \E k \in WideKeys : RbFind(k)

SpecWide == Init /\ [][NextWide]_vars

\* The tree is changed under a traversal object: as SpecTrav, and while a
\* seeded object is in an unbroken first/next or last/prev run the tree may
\* be changed once; the object is then stepped on without a new seed.
NextStale ==
  \/ NextTrav
  \/ \E k \in Keys : /\ trav.seeded /\ walk.kind # "none"
                      /\ FreeNodes # {} /\ RbInsert(PickNode, k)
  \/ \E k \in Keys : trav.seeded /\ walk.kind # "none" /\ RbErase(k)

SpecStale == Init /\ [][NextStale]_vars

\* ================================================================ claims
\* Black nodes on every path from x to an absent child, or -1 when two
\* paths differ.
RECURSIVE BlackHeight(_, _, _)
BlackHeight(m, x, fuel) ==
  IF x = NULL THEN 0
  ELSE IF fuel = 0 THEN -1
  ELSE Only({ IF l < 0 \/ r < 0 \/ l # r THEN -1 ELSE l + (1 - m[x].red) :
              l \in {BlackHeight(m, m[x].link[0], fuel - 1)},
              r \in {BlackHeight(m, m[x].link[1], fuel - 1)} })

\* Keys of the subtree under x.
SubKeys(x) == {node[y].key : y \in Reach(node, x, PoolSize)}

\* The keys of S in increasing order.
RECURSIVE SortedAsc(_)
SortedAsc(S) ==
  IF S = {} THEN <<>>
  ELSE Only({ <<lo>> \o SortedAsc(S \ {lo}) :
              lo \in {CHOOSE a \in S : \A b \in S : a <= b} })

Reverse(q) == [i \in 1..Len(q) |-> q[Len(q) + 1 - i]]

\* C1: after every completed insert or erase the root, if present, is black
\* and no red node has a red child.
C1_RootBlackNoRedRed ==
  /\ root # NULL => node[root].red = 0
  /\ \A x \in InTree : node[x].red = 1 =>
       \A d \in Dirs : ~is_red(node, node[x].link[d])

\* An erase that removed a key left a tree of two or more nodes, one red.
C1_Witness ==
  /\ op.name = "erase" /\ op.f # NULL
  /\ Cardinality(InTree) >= 2
  /\ \E x \in InTree : node[x].red = 1

\* C2: after every completed insert or erase every path from the root to an
\* absent child crosses the same number of black nodes.
C2_BlackHeightUniform == BlackHeight(node, root, PoolSize + 1) >= 0

\* An erase that removed a key left a tree whose black height is two.
C2_Witness ==
  /\ op.name = "erase" /\ op.f # NULL
  /\ BlackHeight(node, root, PoolSize + 1) >= 2

\* C3: a first/next run that has returned NULL handed out the present keys
\* in increasing order, and a last/prev run handed them out in decreasing
\* order.
C3_TraversalSorted ==
  /\ (walk.kind = "first-next" /\ walk.done) => walk.keys = SortedAsc(present)
  /\ (walk.kind = "last-prev" /\ walk.done) => walk.keys = Reverse(SortedAsc(present))

\* C4: jsw_rbfind returns a node holding k exactly when k was inserted and
\* not erased since, and NULL otherwise.
C4_FindMembership ==
  op.name = "find" =>
    /\ op.ret # NULL <=> op.key \in present
    /\ op.ret # NULL => op.ret \in InTree /\ node[op.ret].key = op.key

\* A search that found its key below the root, after an erase emptied a slot.
C4_Witness ==
  /\ op.name = "find" /\ op.ret # NULL /\ op.ret # root
  /\ Cardinality(present) >= 3

\* C5: jsw_rberase of a present key removes exactly that key and one node.
C5_EraseRemovesKey ==
  [][(op'.name = "erase" /\ op'.key \in KeySet) =>
       /\ KeySet' = KeySet \ {op'.key}
       /\ Cardinality(InTree') = Cardinality(InTree) - 1
       /\ present' = KeySet']_vars

\* An erase found its key in an inner node and unlinked another node.
C5_Witness ==
  /\ op.name = "erase" /\ op.f # NULL /\ op.f # op.q
  /\ op.key \notin KeySet /\ Cardinality(InTree) >= 2

\* C6 as stated: jsw_rberase of an absent key leaves root, links, colors and
\* keys of a non-empty tree as they were.
C6_EraseAbsentUnchanged ==
  [][(op'.name = "erase" /\ op'.key \notin KeySet /\ root # NULL) =>
       (root' = root /\ node' = node)]_vars

\* C6 amended: jsw_rberase of an absent key keeps every node in the tree
\* with its key; root, links and colors may change.
C6_EraseAbsentKeepsNodes ==
  [][(op'.name = "erase" /\ op'.key \notin KeySet /\ root # NULL) =>
       /\ InTree' = InTree
       /\ \A x \in InTree : node'[x].key = node[x].key
       /\ op'.f = NULL]_vars

\* An erase of an absent key from a tree of three or more nodes.
C6_Witness ==
  /\ op.name = "erase" /\ op.f = NULL /\ op.key \notin KeySet
  /\ root # NULL /\ Cardinality(InTree) >= 3

\* C7 as stated: jsw_rbinsert of a present key leaves root, links, colors
\* and keys as they were and does not touch the caller's record.
C7_DuplicateInsertNoOp ==
  [][(op'.name = "insert" /\ op'.key \in KeySet) =>
       /\ root' = root
       /\ \A x \in InTree : node'[x] = node[x]
       /\ op'.nd \notin InTree'
       /\ op'.rec = [node[op'.nd] EXCEPT !.key = op'.key]]_vars

\* C7 amended: jsw_rbinsert of a present key keeps the key set and every
\* node of the tree with its key, and neither links nor modifies the
\* caller's record; root, links and colors may change.
C7_DuplicateInsertKeepsKeys ==
  [][(op'.name = "insert" /\ op'.key \in KeySet) =>
       /\ KeySet' = KeySet
       /\ InTree' = InTree
       /\ \A x \in InTree : node'[x].key = node[x].key
       /\ op'.nd \notin InTree'
       /\ op'.rec = [node[op'.nd] EXCEPT !.key = op'.key]]_vars

\* A duplicate insert into a tree of three or more nodes.
C7_Witness ==
  /\ op.name = "insert" /\ op.nd \notin InTree
  /\ Cardinality(InTree) >= 3

\* C8: every key under link[0] of a node is smaller than the node's key and
\* every key under link[1] is larger.
C8_SearchTreeOrientation ==
  \A x \in InTree :
    /\ \A a \in SubKeys(node[x].link[0]) : a < node[x].key
    /\ \A b \in SubKeys(node[x].link[1]) : b > node[x].key

\* C9: jsw_rbinsert returns 1 exactly when the node was linked into the
\* tree, and 0 when the key already exists.
C9_InsertReportsOutcome ==
  op.name = "insert" => (op.ret = 1 <=> op.nd \in InTree)

RECURSIVE Height(_, _, _)
Height(m, x, fuel) ==
  IF x = NULL \/ fuel = 0 THEN 0
  ELSE Only({ 1 + (IF l >= r THEN l ELSE r) :
              l \in {Height(m, m[x].link[0], fuel - 1)},
              r \in {Height(m, m[x].link[1], fuel - 1)} })

\* The proper ancestors of x in the tree, and their list from the root down.
Ancestors(x) == {y \in InTree : y # x /\ x \in Reach(node, y, PoolSize)}
AncestorList(x) ==
  [i \in 1..Cardinality(Ancestors(x)) |->
     CHOOSE y \in Ancestors(x) : Cardinality(Ancestors(y)) = i - 1]

\* C11: a tree of n keys built by inserts and erases has at most
\* 2*log2(n+1) nodes on its longest path (2^height <= (n+1)^2), and while a
\* traversal object walks an unchanged tree its top is at least 0, at most
\* the number of proper ancestors of the current node, and below
\* HEIGHT_LIMIT, so that no push writes past the path array.
C11_StackWithinHeight ==
  /\ Pow2(Height(node, root, PoolSize))
       <= (Cardinality(KeySet) + 1) * (Cardinality(KeySet) + 1)
  /\ ~trav.fault
  /\ trav.top >= 0 /\ trav.top < HEIGHT_LIMIT
  /\ trav.top = Len(trav.path)
  /\ (trav.seeded /\ trav.it # NULL) =>
       trav.top <= Cardinality(Ancestors(trav.it))

\* A step moved the traversal object to a node three levels below the root
\* of a tree of six or more nodes.
C11_Witness ==
  /\ op.name \in {"next", "prev"} /\ trav.it # NULL
  /\ trav.top = 3 /\ Cardinality(Ancestors(trav.it)) = 3
  /\ Cardinality(KeySet) >= 6

\* The keys of the tree that lie in direction d of key k: those for which a
\* search standing at k turns to link[d].
Beyond(k, d) == {j \in KeySet : j # k /\ find_dir(node_cmp(k, j)) = d}

\* The direction of a step: jsw_rbtnext moves with 1, jsw_rbtprev with 0.
StepDir(name) == IF name = "next" THEN 1 ELSE 0

AscendingKeys == <<1, 2, 3, 4, 5, 6, 7>>

\* The tree holds exactly the keys of seq, inserted in that order into the
\* empty tree (in a tree that only grows, record i is the i-th inserted).
BuiltFrom(seq) ==
  /\ Cardinality(InTree) = Len(seq)
  /\ \A i \in 1..Len(seq) : i \in InTree /\ node[i].key = seq[i]

\* C13: inserting 1, 2, ..., 7 in this order into an empty tree yields a
\* tree with at most 3 nodes on its longest root-to-absent-child path.
C13_AscendingHeight3 ==
  BuiltFrom(AscendingKeys) => Height(node, root, PoolSize) <= 3

\* C13 amended: the tree has at most 4 nodes on its longest path, and
\* exactly 4 on one of them.
C13_AscendingHeight4 ==
  BuiltFrom(AscendingKeys) => Height(node, root, PoolSize) = 4

\* The tree built by inserting 1, 2, ..., 7 in this order.
C13_Witness == BuiltFrom(AscendingKeys) /\ op.name = "insert" /\ op.key = 7

\* C14: when jsw_rberase removes a present key k, the node unlinked is the
\* terminal node q of the descent: after the call q holds k and is not in
\* the tree, every other node is, the node f that held k (if it is not q)
\* holds the key q held before, and q had at most one child left, which
\* stays in the tree.
C14_EraseUnlinksTerminal ==
  [][(op'.name = "erase" /\ op'.key \in KeySet) =>
       /\ op'.f \in InTree /\ op'.q \in InTree
       /\ node[op'.f].key = op'.key
       /\ InTree' = InTree \ {op'.q}
       /\ op'.rec.key = op'.key
       /\ op'.f # op'.q =>
            /\ node'[op'.f].key = node[op'.q].key
            /\ \A x \in InTree' \ {op'.f} : node'[x].key = node[x].key
       /\ op'.rec.link[0] = NULL \/ op'.rec.link[1] = NULL
       /\ \A d \in Dirs : op'.rec.link[d] # NULL => op'.rec.link[d] \in InTree']_vars

\* An erase found its key in the root and unlinked a node further down, to
\* which it had moved the key.
C14_Witness ==
  /\ op.name = "erase" /\ op.f # NULL /\ op.f # op.q
  /\ op.f = root /\ op.q \notin InTree /\ op.rec.key = op.key
  /\ node[op.f].key # op.key

\* The helpers at the end of each pass of the loop of jsw_rberase.
RECURSIVE erase_passes(_, _)
erase_passes(s, k) ==
  IF s.fault \/ s.mem[s.q].link[s.dir] = NULL THEN {}
  ELSE Only({ {s1} \cup erase_passes(s1, k) : s1 \in {erase_iter(s, k)} })

\* The current node or its child on the path is red, or the current node
\* is the root, which has no sibling.
RedOnPath(s) ==
  \/ is_red(s.mem, s.q)
  \/ is_red(s.mem, s.mem[s.q].link[s.dir])
  \/ s.p = HEAD

\* The node about to be unlinked is red with at most one child, or it is
\* the root and has no child.
RedTerminal(s) ==
  \/ /\ is_red(s.mem, s.q)
     /\ s.mem[s.q].link[0] = NULL \/ s.mem[s.q].link[1] = NULL
  \/ /\ s.p = HEAD
     /\ s.mem[s.q].link[0] = NULL /\ s.mem[s.q].link[1] = NULL

\* C15: in every jsw_rberase on a non-empty tree, at the end of every pass
\* of the descent loop the current node or its child on the path is red
\* (unless the current node is the root); the node unlinked is red with at
\* most one child, or is the childless root; and the tree left has a uniform
\* black height.
C15_PushRedDown ==
  [][(op'.name = "erase" /\ root # NULL) =>
       /\ \A s \in erase_passes(erase_start(node, root), op'.key) :
            ~s.fault /\ RedOnPath(s)
       /\ op'.f # NULL =>
            \A s \in {erase_loop(erase_start(node, root), op'.key)} :
              s.q = op'.q /\ RedTerminal(s)
       /\ BlackHeight(node', root', PoolSize + 1) >= 0]_vars

\* An erase went three or more passes down, found its key above the
\* terminal node and unlinked a red node.
C15_Witness ==
  /\ op.name = "erase" /\ op.f # NULL /\ op.f # op.q
  /\ op.rec.red = 1 /\ Cardinality(KeySet) >= 5

\* d is a value of the signed KeyBits-bit type.
InRange(d) == KeyMin <= d /\ d <= KeyMax

\* The order the code keeps when node_cmp is exact: larger keys under
\* link[0], smaller keys under link[1].
CodeOrdered ==
  \A x \in InTree :
    /\ \A a \in SubKeys(node[x].link[0]) : a > node[x].key
    /\ \A b \in SubKeys(node[x].link[1]) : b < node[x].key

\* C16: for keys whose difference fits the signed KeyBits-bit range,
\* node_cmp has the sign of the true difference, and a tree into which only
\* keys with pairwise fitting differences were inserted is ordered and
\* jsw_rbfind finds exactly the inserted keys.
C16_InRangeAgrees ==
  /\ \A a \in WideKeys : \A b \in WideKeys :
       InRange(b - a) =>
         /\ node_cmp(a, b) < 0 <=> b < a
         /\ node_cmp(a, b) = 0 <=> b = a
  /\ (\A a \in present : \A b \in present : InRange(b - a)) =>
       /\ CodeOrdered
       /\ present = KeySet
       /\ op.name = "find" => (op.ret # NULL <=> op.key \in present)

\* Keys a < b whose wrapped difference has the wrong sign were inserted
\* and the tree is out of order: the larger key hangs on the side of the
\* smaller keys.
C16_Witness ==
  /\ op.name = "insert" /\ op.nd \in InTree
  /\ \E a \in present : \E b \in present : a < b /\ node_cmp(a, b) < 0
  /\ present = KeySet /\ Cardinality(KeySet) >= 3
  /\ ~CodeOrdered

\* The step just taken from a node with key k went to the nearest key in
\* its direction, or returned NULL when there was none.
StepRight ==
  \A d \in {StepDir(op'.name)} : \A k \in {node[trav.it].key} :
    IF op'.ret = NULL THEN Beyond(k, d) = {}
    ELSE /\ op'.ret \in InTree
         /\ node[op'.ret].key \in Beyond(k, d)
         /\ \A j \in Beyond(k, d) :
              j = node[op'.ret].key \/ j \in Beyond(node[op'.ret].key, d)

\* C17: jsw_rbinsert and jsw_rberase leave a traversal object as it is,
\* with the path it recorded before the change; a step of an unbroken run on
\* an unchanged tree goes to the nearest key in its direction, so that a
\* step returning a node outside the tree (the witness) is the effect of
\* the change alone.
C17_MutationLeavesCursorStale ==
  [][/\ op'.name \in {"insert", "erase"} => trav' = trav
     /\ (op'.name \in {"next", "prev"} /\ walk.kind # "none") => StepRight]_vars

\* After the tree was changed under a seeded traversal object, a step
\* returned a record that is not reachable from the root.
C17_Witness ==
  /\ op.name \in {"next", "prev"} /\ op.ret # NULL /\ op.ret \notin InTree
  /\ trav.it = op.ret /\ ~fault

\* C18: on an unchanged tree the path stack of a seeded traversal object is
\* the list of the proper ancestors of the current node from the root down,
\* and the steps are inverse to each other: when jsw_rbtnext returns a
\* node, jsw_rbtprev from there returns to the node and the stack it came
\* from, and likewise jsw_rbtnext after jsw_rbtprev.
C18_StepsInverse ==
  (trav.seeded /\ trav.it # NULL) =>
    /\ trav.it \in InTree
    /\ trav.top = Len(trav.path)
    /\ trav.path = AncestorList(trav.it)
    /\ \A t1 \in {jsw_rbtnext(node, trav)} :
         t1.it # NULL => jsw_rbtprev(node, t1) = trav
    /\ \A t1 \in {jsw_rbtprev(node, trav)} :
         t1.it # NULL => jsw_rbtnext(node, t1) = trav

\* A run changed direction below the root of a tree of five or more nodes:
\* jsw_rbtprev returned a node from which jsw_rbtnext leads on to another.
C18_Witness ==
  /\ op.name = "prev" /\ op.ret # NULL /\ walk.kind = "none"
  /\ trav.seeded /\ trav.top >= 2 /\ Cardinality(InTree) >= 5
  /\ jsw_rbtnext(node, trav).it # NULL

\* The helpers of jsw_rbinsert in each pass of the loop, where the red
\* violation is tested (after the insertion or the color flip).
RECURSIVE ins_tests(_, _)
ins_tests(s, n) ==
  IF s.fault \/ s.done THEN {}
  ELSE Only({ {a} \cup ins_tests(ins_descend(ins_rotate(a), a.mem[n].key), n) :
              a \in {ins_first(s, n)} })

\* The helpers of jsw_rberase in each pass of the loop, where the push-down
\* is entered; last is dir as it was before the move.
RECURSIVE erase_tests(_, _)
erase_tests(s, k) ==
  IF s.fault \/ s.mem[s.q].link[s.dir] = NULL THEN {}
  ELSE Only({ {[s |-> s1, last |-> s.dir]}
                \cup erase_tests(erase_push_down(s1, s.dir), k) :
              s1 \in {erase_move(s, k)} })

\* The sibling of q in the pass e: p->link[!last].
Sibling(e) == e.s.mem[e.s.p].link[Not(e.last)]

\* The pass e takes the branch that rotates at p: q and its children are
\* black and the sibling has a red child.
SiblingBranch(e) ==
  /\ ~is_red(e.s.mem, e.s.q)
  /\ ~is_red(e.s.mem, e.s.mem[e.s.q].link[0])
  /\ ~is_red(e.s.mem, e.s.mem[e.s.q].link[1])
  /\ Sibling(e) # NULL
  /\ \E d \in Dirs : is_red(e.s.mem, e.s.mem[Sibling(e)].link[d])

\* After the rotation at p the new subtree root under g has two children.
RotatedHasChildren(e) ==
  \A s2 \in {erase_sibling_rotate(e.s, e.last, Sibling(e))} :
    /\ ~s2.fault
    /\ \A x \in {s2.mem[e.s.g].link[erase_dir2(e.s.mem, e.s.g, e.s.p)]} :
         x # NULL /\ s2.mem[x].link[0] # NULL /\ s2.mem[x].link[1] # NULL

\* C19: on every tree reached by inserts and erases no jsw_rbinsert and no
\* jsw_rberase dereferences an absent reference: where an insert finds q
\* and p both red, g is present; in an erase the sibling is absent in the
\* pass under the false root, and where the branch rotating at p is taken,
\* g is present and the rotated subtree root has both children.
C19_NoAbsentDereference ==
  /\ ~fault
  /\ (root # NULL /\ FreeNodes # {}) =>
       \A k \in DeepKeys :
         \A a \in ins_tests(ins_start([node EXCEPT ![PickNode].key = k], root),
                            PickNode) :
           (is_red(a.mem, a.q) /\ is_red(a.mem, a.p)) => (a.g # NULL /\ a.t # NULL)
  /\ root # NULL =>
       \A k \in DeepKeys :
         \A e \in erase_tests(erase_start(node, root), k) :
           /\ e.s.p = HEAD => Sibling(e) = NULL
           /\ SiblingBranch(e) => (e.s.g # NULL /\ RotatedHasChildren(e))

\* An erase left a tree in which a further erase rotates at p with a double
\* rotation, and an insert finds a red node under a red parent.
C19_Witness ==
  /\ op.name = "erase" /\ ~fault /\ root # NULL /\ FreeNodes # {}
  /\ \E k \in DeepKeys :
       \E e \in erase_tests(erase_start(node, root), k) :
         SiblingBranch(e) /\ is_red(e.s.mem, e.s.mem[Sibling(e)].link[e.last])
  /\ \E k \in DeepKeys :
       \E a \in ins_tests(ins_start([node EXCEPT ![PickNode].key = k], root),
                          PickNode) :
         is_red(a.mem, a.q) /\ is_red(a.mem, a.p)

====
